---- MODULE Spec2Model ----
(***************************************************************************)
(* FeatherLocalDataSet (kedro/contrib/io/feather/feather_local.py) on top  *)
(* of the versioned data-set contract of kedro.io.core.                    *)
(*                                                                         *)
(* The state is the local filesystem (regular files with their contents,   *)
(* directories), the clock that stamps generated save versions, and a      *)
(* record of the last call made on a data set together with a summary of   *)
(* the call before it, and, for saves made by several processes at once,   *)
(* how far each process is in its save.  Data sets themselves are          *)
(* immutable after construction, so they are values, not state.            *)
(*                                                                         *)
(* A path is a sequence of components, absolute when it starts with "/".   *)
(* A version identifier is a string, modelled as the sequence of its       *)
(* characters (naturals), compared lexically.  The unset identifier, and   *)
(* the absence of a value, is the empty sequence.                          *)
(***************************************************************************)
EXTENDS Integers, Sequences, FiniteSets, TLC

VARIABLES files, dirs, clock, last, prev, proc

vars == <<files, dirs, clock, last, prev, proc>>

\* Number of save versions the clock can generate in one exploration.
MaxClock == 2

None == <<>>

(***************************************************************************)
(* pathlib                                                                 *)
(***************************************************************************)
\* The working directory of the process.
Cwd == <<"/", "w">>

is_absolute(p) == Len(p) > 0 /\ p[1] = "/"

\* Path.absolute(): a relative path is anchored at the working directory.
absolute(p) == IF is_absolute(p) THEN p ELSE Cwd \o p

\* Path.parent
parent(p) == SubSeq(p, 1, Len(p) - 1)

\* Path.name
name(p) == p[Len(p)]

\* p and every directory above it, for an absolute path p.
UpTo(p) == {SubSeq(p, 1, k) : k \in 1..Len(p)}

\* Path.is_file(): the path is an existing regular file.
is_file(p, fs) == absolute(p) \in DOMAIN fs.files

\* Path.mkdir(parents, exist_ok) on directory p.  An error leaves the
\* filesystem as it was.
mkdir(p, parents, exist_ok, fs) ==
  LET ap == absolute(p) IN
  IF \E q \in UpTo(ap) : q \in DOMAIN fs.files
    THEN [kind |-> "OSError", dirs |-> fs.dirs]
  ELSE IF ap \in fs.dirs
    THEN [kind |-> IF exist_ok THEN "ok" ELSE "OSError", dirs |-> fs.dirs]
  ELSE IF ~parents /\ parent(ap) \notin fs.dirs
    THEN [kind |-> "OSError", dirs |-> fs.dirs]
  ELSE [kind |-> "ok", dirs |-> fs.dirs \cup UpTo(ap)]

(***************************************************************************)
(* pandas: a frame is a function from column names to column contents.     *)
(***************************************************************************)
Columns == {"col1", "col2"}

\* The frames that are saved.
Frames == {[col1 |-> 1, col2 |-> 4], [col1 |-> 2, col2 |-> 5]}

\* DataFrame.to_feather(path): writes the frame to a regular file, replacing
\* its contents; fails on a directory or under a missing directory.
to_feather(data, p, fs) ==
  LET ap == absolute(p) IN
  IF ap \in fs.dirs \/ parent(ap) \notin fs.dirs
    THEN [kind |-> "OSError", files |-> fs.files]
  ELSE [kind |-> "ok",
        files |-> [q \in DOMAIN fs.files \cup {ap} |->
                     IF q = ap THEN data ELSE fs.files[q]]]

\* pd.read_feather(path, **load_args): the stored frame, restricted to the
\* columns named by the "columns" option when that option is given.
read_feather(p, load_args, fs) ==
  LET ap == absolute(p) IN
  IF ap \notin DOMAIN fs.files
    THEN [kind |-> "OSError", value |-> None]
  ELSE IF "columns" \in DOMAIN load_args
    THEN [kind |-> "ok",
          value |-> [c \in load_args["columns"] |-> fs.files[ap][c]]]
  ELSE [kind |-> "ok", value |-> fs.files[ap]]

(***************************************************************************)
(* kedro.io.core: versions, path resolution, consistency check             *)
(***************************************************************************)
\* Version(load, save); an unset identifier is None.
Version(load, save) == [versioned |-> TRUE, load |-> load, save |-> save]

\* version=None at construction: the data set is not versioned.
NoVersion == [versioned |-> FALSE, load |-> None, save |-> None]

\* Lexical order on identifiers: a is strictly before b.
RECURSIVE LexLess(_, _)
LexLess(a, b) ==
  IF b = <<>> THEN FALSE
  ELSE IF a = <<>> THEN TRUE
  ELSE IF a[1] # b[1] THEN a[1] < b[1]
  ELSE LexLess(Tail(a), Tail(b))

\* The identifier generated for a save at clock value c: a fixed-width
\* timestamp, so that later stamps are lexically greater.
generate_timestamp(c) == <<2, c>>

\* <filepath>/<version>/<filename>
_get_versioned_path(h, v) == h.filepath \o <<v, name(h.filepath)>>

\* The versions of the data set that hold the target file.
ExistingVersions(h, fs) ==
  LET fp == absolute(h.filepath) IN
  {q[Len(fp) + 1] : q \in {r \in DOMAIN fs.files :
                             /\ Len(r) = Len(fp) + 2
                             /\ SubSeq(r, 1, Len(fp)) = fp
                             /\ name(r) = name(fp)}}

\* First element of S in descending lexical order.
Latest(S) == CHOOSE v \in S : \A w \in S : w = v \/ LexLess(w, v)

\* Load path resolution.  io is the set of paths looked at.
_get_load_path(h, fs) ==
  IF ~h.version.versioned
    THEN [kind |-> "ok", path |-> h.filepath, io |-> {}]
  ELSE IF h.version.load # None
    THEN [kind |-> "ok", path |-> _get_versioned_path(h, h.version.load),
          io |-> {}]
  ELSE IF ExistingVersions(h, fs) = {}
    THEN [kind |-> "VersionNotFoundError", path |-> None,
          io |-> {absolute(h.filepath)}]
  ELSE [kind |-> "ok",
        path |-> _get_versioned_path(h, Latest(ExistingVersions(h, fs))),
        io |-> {absolute(h.filepath)}]

\* Save path resolution at clock value c; a generated identifier uses up
\* the clock value.
_get_save_path(h, c) ==
  IF ~h.version.versioned
    THEN [path |-> h.filepath, clock |-> c]
  ELSE IF h.version.save # None
    THEN [path |-> _get_versioned_path(h, h.version.save), clock |-> c]
  ELSE [path |-> _get_versioned_path(h, generate_timestamp(c)),
        clock |-> c + 1]

_check_paths_consistency(load_path, save_path) ==
  IF load_path # save_path THEN "InconsistentVersionError" ELSE "ok"

\* DataSetError and the errors surfaced under it.
IsDataSetError(kind) ==
  kind \in {"DataSetError", "VersionNotFoundError", "InconsistentVersionError"}

(***************************************************************************)
(* FeatherLocalDataSet                                                     *)
(***************************************************************************)
default_load_args == <<>>

\* {**default_load_args, **load_args}: the user's value wins on a key.
Merge(defaults, given) ==
  [k \in DOMAIN defaults \cup DOMAIN given |->
     IF k \in DOMAIN given THEN given[k] ELSE defaults[k]]

\* __init__
FeatherLocalDataSet(filepath, load_args, version) ==
  [filepath |-> filepath,
   load_args |-> IF load_args # None
                   THEN Merge(default_load_args, load_args)
                   ELSE default_load_args,
   version |-> version]

\* _load reading the configured filepath itself instead of the resolved
\* load path.
_load_base(h, fs) ==
  LET rd == read_feather(h.filepath, h.load_args, fs) IN
  [kind |-> rd.kind, value |-> rd.value, io |-> {absolute(h.filepath)}]

\* _load answering an empty frame when the file is not there.
_load_missing_ok(h, fs) ==
  LET lp == _get_load_path(h, fs) IN
  IF lp.kind # "ok" \/ ~is_file(lp.path, fs)
    THEN [kind |-> "ok", value |-> None, io |-> lp.io]
  ELSE LET rd == read_feather(lp.path, h.load_args, fs) IN
       [kind |-> rd.kind, value |-> rd.value,
        io |-> lp.io \cup {absolute(lp.path)}]

\* _load resolving its path with _get_save_path.
_load_from_save_path(h, fs) ==
  LET sp == _get_save_path(h, clock)
      rd == read_feather(sp.path, h.load_args, fs)
  IN [kind |-> rd.kind, value |-> rd.value, io |-> {absolute(sp.path)}]

_load(h, fs) ==
  LET lp == _get_load_path(h, fs) IN
  IF lp.kind # "ok"
    THEN [kind |-> lp.kind, value |-> None, io |-> lp.io]
  ELSE LET rd == read_feather(lp.path, h.load_args, fs) IN
       [kind |-> rd.kind, value |-> rd.value,
        io |-> lp.io \cup {absolute(lp.path)}]

\* The write creating only the last directory: mkdir(exist_ok=True).
_save_write_no_parents(h, data, sp, fs) ==
  LET md == mkdir(parent(sp), FALSE, TRUE, fs)
      wr == to_feather(data, sp, [files |-> fs.files, dirs |-> md.dirs])
  IN IF md.kind # "ok"
       THEN [kind |-> md.kind, files |-> fs.files, dirs |-> fs.dirs]
     ELSE [kind |-> wr.kind, files |-> wr.files, dirs |-> md.dirs]

\* The write clearing the other files of the data set's directory.
_save_write_replace(h, data, sp, fs) ==
  LET md == mkdir(parent(sp), TRUE, TRUE, fs)
      wr == to_feather(data, sp, [files |-> fs.files, dirs |-> md.dirs])
      fp == absolute(h.filepath)
      kept == {q \in DOMAIN wr.files :
                 \/ q = absolute(sp)
                 \/ Len(q) <= Len(fp)
                 \/ SubSeq(q, 1, Len(fp)) # fp}
  IN IF md.kind # "ok"
       THEN [kind |-> md.kind, files |-> fs.files, dirs |-> fs.dirs]
     ELSE IF wr.kind # "ok"
       THEN [kind |-> wr.kind, files |-> fs.files, dirs |-> md.dirs]
     ELSE [kind |-> "ok", files |-> [q \in kept |-> wr.files[q]],
           dirs |-> md.dirs]

\* Lines 106-107 of _save: the parent directory is made, then the frame
\* is written to the save path sp.
_save_write(h, data, sp, fs) ==
  LET md == mkdir(parent(sp), TRUE, TRUE, fs)
      wr == to_feather(data, sp, [files |-> fs.files, dirs |-> md.dirs])
  IN IF md.kind # "ok"
       THEN [kind |-> md.kind, files |-> fs.files, dirs |-> fs.dirs]
     ELSE [kind |-> wr.kind, files |-> wr.files, dirs |-> md.dirs]

\* The check comparing the load path as resolved with the absolute save
\* path.
_save_check_relative(h, sp, fs) ==
  LET lp == _get_load_path(h, fs) IN
  IF lp.kind # "ok" THEN [kind |-> lp.kind, load_path |-> None]
  ELSE [kind |-> _check_paths_consistency(lp.path, absolute(sp)),
        load_path |-> lp.path]

\* The check taking the load path to be the path just written.
_save_check_assumed(h, sp, fs) ==
  [kind |-> _check_paths_consistency(absolute(sp), absolute(sp)),
   load_path |-> sp]

\* Lines 109-110 of _save: the load path is resolved in the filesystem as
\* it is at that moment, and compared with the save path sp.
_save_check(h, sp, fs) ==
  LET lp == _get_load_path(h, fs) IN
  IF lp.kind # "ok" THEN [kind |-> lp.kind, load_path |-> None]
  ELSE [kind |-> _check_paths_consistency(absolute(lp.path), absolute(sp)),
        load_path |-> lp.path]

\* _save undoing its write when the check fails.
_save_rollback(h, data, fs, c) ==
  LET sp == _get_save_path(h, c)
      wr == _save_write(h, data, sp.path, fs)
      ck == _save_check(h, sp.path, [files |-> wr.files, dirs |-> wr.dirs])
      out(kind, f, d, l) ==
        [kind |-> kind, files |-> f, dirs |-> d, clock |-> sp.clock,
         save_path |-> sp.path, load_path |-> l,
         io |-> {absolute(sp.path)}]
  IN IF wr.kind # "ok" THEN out(wr.kind, wr.files, wr.dirs, None)
     ELSE IF ck.kind # "ok" THEN out(ck.kind, fs.files, wr.dirs, ck.load_path)
     ELSE out(ck.kind, wr.files, wr.dirs, ck.load_path)

\* _save as one call that nothing interleaves with.
_save(h, data, fs, c) ==
  LET sp == _get_save_path(h, c)
      wr == _save_write(h, data, sp.path, fs)
      ck == _save_check(h, sp.path, [files |-> wr.files, dirs |-> wr.dirs])
      out(kind, f, d, l) ==
        [kind |-> kind, files |-> f, dirs |-> d, clock |-> sp.clock,
         save_path |-> sp.path, load_path |-> l,
         io |-> {absolute(sp.path)}]
  IN IF wr.kind # "ok" THEN out(wr.kind, wr.files, wr.dirs, None)
     ELSE out(ck.kind, wr.files, wr.dirs, ck.load_path)

\* _exists without the try/except around the path resolution.
_exists_unguarded(h, fs) ==
  LET lp == _get_load_path(h, fs) IN
  IF lp.kind # "ok"
    THEN [kind |-> lp.kind, value |-> None, io |-> lp.io]
  ELSE [kind |-> "ok", value |-> is_file(lp.path, fs),
        io |-> lp.io \cup {absolute(lp.path)}]

_exists(h, fs) ==
  LET lp == _get_load_path(h, fs) IN
  IF IsDataSetError(lp.kind)
    THEN [kind |-> "ok", value |-> FALSE, io |-> lp.io]
  ELSE IF lp.kind # "ok"
    THEN [kind |-> lp.kind, value |-> None, io |-> lp.io]
  ELSE [kind |-> "ok", value |-> is_file(lp.path, fs),
        io |-> lp.io \cup {absolute(lp.path)}]

\* _describe leaving the version out.
_describe_without_version(h) ==
  [filepath |-> h.filepath, load_args |-> h.load_args]

_describe(h) ==
  [filepath |-> h.filepath, load_args |-> h.load_args, version |-> h.version]

(***************************************************************************)
(* kedro.io.core: the public calls                                         *)
(***************************************************************************)
\* The message of an error raised by a public call: what failed, the type
\* of the data set and its description.
Message(text, h) ==
  [text |-> text, type |-> "FeatherLocalDataSet", description |-> _describe(h)]

\* The outcome of a public call: a normal return and an error of the data
\* set's own kind pass, any other error is wrapped.
Wrap(kind) ==
  IF kind = "ok" \/ IsDataSetError(kind) THEN kind ELSE "DataSetError"

load(h, fs) ==
  LET r == _load(h, fs) IN
  IF r.kind = "ok"
    THEN [kind |-> "ok", value |-> r.value, msg |-> None, io |-> r.io]
  ELSE [kind |-> Wrap(r.kind), value |-> None,
        msg |-> Message("Failed while loading data from data set", h),
        io |-> r.io]

save(h, data, fs, c) ==
  LET r == _save(h, data, fs, c) IN
  [r EXCEPT !.kind = Wrap(r.kind)] @@
  [msg |-> IF r.kind = "ok" THEN None
           ELSE Message("Failed while saving data to data set", h)]

exists(h, fs) ==
  LET r == _exists(h, fs) IN
  IF r.kind = "ok"
    THEN [kind |-> "ok", value |-> r.value, msg |-> None, io |-> r.io]
  ELSE [kind |-> Wrap(r.kind), value |-> None,
        msg |-> Message("Failed during exists check for data set", h),
        io |-> r.io]

describe(h) == [kind |-> "ok", value |-> _describe(h), msg |-> None, io |-> {}]

(***************************************************************************)
(* The data sets in use.  They all name the same file, d/f under the       *)
(* working directory, whose parent directory does not exist at the start.  *)
(***************************************************************************)
RelPath == <<"d", "f">>
AbsPath == <<"/", "w", "d", "f">>

V1 == <<1>>
V3 == <<3>>

DataSets ==
  [plain    |-> FeatherLocalDataSet(RelPath, None, NoVersion),
   columns  |-> FeatherLocalDataSet(AbsPath, [columns |-> {"col1"}], NoVersion),
   latest   |-> FeatherLocalDataSet(RelPath, None, Version(None, None)),
   pinned   |-> FeatherLocalDataSet(AbsPath, <<>>, Version(V1, V1)),
   forced   |-> FeatherLocalDataSet(RelPath, None, Version(V1, V3)),
   ahead    |-> FeatherLocalDataSet(AbsPath, None, Version(None, V3))]

Names == DOMAIN DataSets

FS == [files |-> files, dirs |-> dirs]

NoCall == [op |-> "none", ds |-> "none", data |-> None, kind |-> "ok"]


\* What is remembered of the call before the last one: a save with its data
\* and outcome, a describe with its result, and of any other call only
\* that it was made.
Summary(call) ==
  IF call.op = "save"
    THEN [op |-> "save", ds |-> call.ds, data |-> call.data,
          ok |-> call.kind = "ok", value |-> None]
  ELSE IF call.op = "describe"
    THEN [op |-> "describe", ds |-> call.ds, data |-> None,
          ok |-> call.kind = "ok", value |-> call.value]
  ELSE [op |-> "other", ds |-> "none", data |-> None, ok |-> TRUE,
        value |-> None]

\* The processes that save at the same time.
Procs == {"A", "B"}

\* A process that is not in a call.
Idle ==
  [pc |-> "idle", data |-> None, save_path |-> None, load_path |-> None,
   kind |-> "ok", overtaken |-> None]

Init ==
  /\ files = <<>>
  /\ dirs = {<<"/">>, Cwd}
  /\ clock = 1
  /\ last = NoCall @@ [value |-> None, msg |-> None, io |-> {},
                       save_path |-> None, load_path |-> None,
                       pre |-> [files |-> <<>>, dirs |-> {<<"/">>, Cwd}]]
  /\ prev = Summary(NoCall)
  /\ proc = [p \in Procs |-> Idle]

(***************************************************************************)
(* One caller: every call runs to its end before the next one starts.      *)
(***************************************************************************)
\* data_set.save(data)
Save(n, data) ==
  LET h == DataSets[n] IN
  \E r \in {save(h, data, FS, clock)} :
  /\ (h.version.versioned /\ h.version.save = None) => clock <= MaxClock
  /\ files' = r.files
  /\ dirs' = r.dirs
  /\ clock' = r.clock
  /\ last' = [op |-> "save", ds |-> n, data |-> data, kind |-> r.kind,
              value |-> None, msg |-> r.msg, io |-> r.io,
              save_path |-> r.save_path, load_path |-> r.load_path,
              pre |-> FS]
  /\ prev' = Summary(last)
  /\ UNCHANGED proc

\* A call that returns a result and is not meant to change the filesystem;
\* outcome is what the call returns or raises.
Query(op, n, outcome) ==
  \E r \in {outcome} :
  /\ last' = [op |-> op, ds |-> n, data |-> None, kind |-> r.kind,
              value |-> r.value, msg |-> r.msg, io |-> r.io,
              save_path |-> None, load_path |-> None, pre |-> FS]
  /\ prev' = Summary(last)
  /\ UNCHANGED <<files, dirs, clock, proc>>

\* data_set.load()
Load(n) == Query("load", n, load(DataSets[n], FS))

\* data_set.exists()
Exists(n) == Query("exists", n, exists(DataSets[n], FS))

\* data_set.describe()
Describe(n) == Query("describe", n, describe(DataSets[n]))

Next ==
  \/ \E n \in Names, data \in Frames : Save(n, data)
  \/ \E n \in Names : Load(n)
  \/ \E n \in Names : Exists(n)
  \/ \E n \in Names : Describe(n)

Spec == Init /\ [][Next]_vars

(***************************************************************************)
(* Several processes saving to the versioned data set with both            *)
(* identifiers unset.  No lock is taken, so the steps of their saves       *)
(* interleave: the save path is resolved, the file is written, the load    *)
(* path is resolved and checked against the save path.                     *)
(***************************************************************************)
Shared == DataSets["latest"]

\* Line 105: save() starts and the save path is resolved.
SaveResolve(p, data) ==
  LET sp == _get_save_path(Shared, clock) IN
  /\ proc[p].pc = "idle"
  /\ clock <= MaxClock
  /\ clock' = sp.clock
  /\ proc' = [proc EXCEPT ![p] = [Idle EXCEPT !.pc = "resolved",
                                              !.data = data,
                                              !.save_path = sp.path]]
  /\ UNCHANGED <<files, dirs, last, prev>>

\* The version identifier in a versioned path.
VersionOf(path) == path[Len(path) - 1]

\* Lines 106-107: the directories are made and the file is written.  A
\* process that has resolved an older save path and has not yet resolved
\* its load path is overtaken by this write.
SaveWrite(p) ==
  LET me == proc[p]
      wr == _save_write(Shared, me.data, me.save_path, FS)
      behind(q) ==
        /\ q # p
        /\ proc[q].pc \in {"resolved", "written"}
        /\ LexLess(VersionOf(proc[q].save_path), VersionOf(me.save_path))
  IN
  /\ me.pc = "resolved"
  /\ files' = wr.files
  /\ dirs' = wr.dirs
  /\ proc' = [q \in Procs |->
                IF q = p
                  THEN IF wr.kind = "ok"
                         THEN [me EXCEPT !.pc = "written"]
                         ELSE [me EXCEPT !.pc = "done", !.kind = Wrap(wr.kind)]
                ELSE IF wr.kind = "ok" /\ behind(q)
                  THEN [proc[q] EXCEPT !.overtaken = absolute(me.save_path)]
                ELSE proc[q]]
  /\ UNCHANGED <<clock, last, prev>>

\* Lines 109-110: the load path is resolved and checked; save() returns
\* or raises.
SaveCheck(p) ==
  LET me == proc[p]
      ck == _save_check(Shared, me.save_path, FS)
  IN
  /\ me.pc = "written"
  /\ proc' = [proc EXCEPT ![p] = [me EXCEPT !.pc = "done",
                                            !.kind = Wrap(ck.kind),
                                            !.load_path = ck.load_path]]
  /\ UNCHANGED <<files, dirs, clock, last, prev>>

\* The caller takes the outcome; the process is free for another save.
SaveReturn(p) ==
  /\ proc[p].pc = "done"
  /\ proc' = [proc EXCEPT ![p] = Idle]
  /\ UNCHANGED <<files, dirs, clock, last, prev>>

ConcurrentNext ==
  \/ \E p \in Procs, data \in Frames : SaveResolve(p, data)
  \/ \E p \in Procs : SaveWrite(p)
  \/ \E p \in Procs : SaveCheck(p)
  \/ \E p \in Procs : SaveReturn(p)

ConcurrentSpec == Init /\ [][ConcurrentNext]_vars

(***************************************************************************)
(* Properties                                                              *)
(***************************************************************************)
\* The data set of the last call and of the call before it.
LastDS == DataSets[last.ds]

IsCall(op) == last.op = op /\ last.ds \in Names

\* The absolute path a load of h reads in the current filesystem, None when
\* the load identifier is unset and no version has been saved.
Target(h) ==
  LET fp == absolute(h.filepath)
      at(v) == fp \o <<v, name(fp)>>
      saved == {v \in {generate_timestamp(c) : c \in 1..clock} \cup {V1, V3} :
                  at(v) \in DOMAIN files}
  IN IF ~h.version.versioned THEN fp
     ELSE IF h.version.load # None THEN at(h.version.load)
     ELSE IF saved = {} THEN None
     ELSE at(CHOOSE v \in saved : \A w \in saved : ~LexLess(v, w))

\* The description of a data set: its configured path, options and version.
Configuration(h) ==
  [filepath |-> h.filepath, load_args |-> h.load_args, version |-> h.version]

\* The last call was a load right after a successful save of the same data
\* set, unversioned or versioned with both identifiers unset.
SaveThenLoad ==
  /\ IsCall("load")
  /\ prev.op = "save" /\ prev.ok /\ prev.ds = last.ds
  /\ \/ ~LastDS.version.versioned
     \/ LastDS.version.load = None /\ LastDS.version.save = None

\* C1 as stated: a load right after a successful save on the same data set
\* (unversioned, or versioned with both identifiers unset) returns a value
\* equal to the saved one, whatever the load options.
C1_RoundTripAnyOptions ==
  SaveThenLoad => last.kind = "ok" /\ last.value = prev.data

\* C1 amended: the round trip holds when the load options select no columns.
C1_RoundTrip ==
  (SaveThenLoad /\ "columns" \notin DOMAIN LastDS.load_args)
    => last.kind = "ok" /\ last.value = prev.data

\* A versioned round trip through a generated version, with another version
\* holding other data on disk.
C1_Witness ==
  /\ SaveThenLoad
  /\ last.ds = "latest"
  /\ last.value = prev.data
  /\ \E p \in DOMAIN files : files[p] # last.value

\* C2: a load whose target was never saved fails with DataSetError (or an
\* error surfaced under it), and the message carries the type of the data
\* set and its configuration.
C2_MissingFileLoad ==
  (IsCall("load") /\ (Target(LastDS) = None \/ Target(LastDS) \notin DOMAIN files))
    => /\ IsDataSetError(last.kind)
       /\ last.msg # None
       /\ last.msg.type = "FeatherLocalDataSet"
       /\ last.msg.description = Configuration(LastDS)

\* An unversioned load before anything was saved: the reader's own error is
\* wrapped.
C2_Witness ==
  /\ IsCall("load")
  /\ last.ds = "plain"
  /\ files = <<>>
  /\ last.kind = "DataSetError"

\* C3: exists() does not raise; it is false when nothing can be resolved,
\* otherwise it tells whether the resolved load path is a regular file, and
\* it is true right after a successful save of the same data set.
C3_Exists ==
  IsCall("exists")
    => /\ last.kind = "ok"
       /\ last.value = (Target(LastDS) # None /\ Target(LastDS) \in DOMAIN files)
       /\ (prev.op = "save" /\ prev.ok /\ prev.ds = last.ds) => last.value = TRUE

\* exists() on a versioned data set with no version saved, while the
\* directory tree of another kind of save is there.
C3_Witness ==
  /\ IsCall("exists")
  /\ last.ds = "latest"
  /\ Target(LastDS) = None
  /\ last.value = FALSE
  /\ files # <<>>

\* C4: with an unset load identifier a load returns the data of the
\* lexically greatest version on disk at the time of the call.
C4_VersionOrdering ==
  (IsCall("load") /\ LastDS.version.versioned /\ LastDS.version.load = None
     /\ Target(LastDS) # None)
    => /\ last.kind = "ok"
       /\ last.value = files[Target(LastDS)]
       /\ \A p \in DOMAIN files :
            Len(p) = Len(Target(LastDS))
              => ~LexLess(Target(LastDS)[Len(p) - 1], p[Len(p) - 1])

\* Three versions on disk, the greatest written by another data set in the
\* call just before the load.
C4_Witness ==
  /\ IsCall("load")
  /\ last.ds = "latest"
  /\ prev.op = "save" /\ prev.ok /\ prev.ds = "ahead"
  /\ Cardinality(DOMAIN files) = 3
  /\ last.value = prev.data
  /\ \E p \in DOMAIN files : files[p] # last.value

\* The last call was a save that wrote its file.
Wrote ==
  /\ IsCall("save")
  /\ absolute(last.save_path) \in DOMAIN files
  /\ \A q \in UpTo(parent(absolute(last.save_path))) : q \notin DOMAIN last.pre.files
  /\ absolute(last.save_path) \notin last.pre.dirs

\* C5: after the write, save() fails with InconsistentVersionError when
\* the load path resolved then differs from the written path, and the
\* check passes when they are equal.
C5_Consistency ==
  Wrote => IF Target(LastDS) # absolute(last.save_path)
             THEN last.kind = "InconsistentVersionError"
             ELSE last.kind = "ok"

\* Load and save identifiers forced to different values.
C5_Witness ==
  /\ Wrote
  /\ last.ds = "forced"
  /\ last.kind = "InconsistentVersionError"
  /\ Target(LastDS) \notin DOMAIN files

\* The target of the last save was free: no directory above it is a
\* regular file, it is not a directory, and it is an existing file only
\* for an unversioned data set.
FreeTarget ==
  LET sp == absolute(last.save_path) IN
  /\ \A q \in UpTo(parent(sp)) : q \notin DOMAIN last.pre.files
  /\ sp \notin last.pre.dirs
  /\ sp \in DOMAIN last.pre.files => ~LastDS.version.versioned

\* C6 as stated: a save to a free target, with or without its parent
\* directories in place, succeeds and leaves all parent directories of the
\* written file in place.
C6_SaveAlwaysSucceeds ==
  (IsCall("save") /\ FreeTarget)
    => /\ last.kind = "ok"
       /\ UpTo(parent(absolute(last.save_path))) \subseteq dirs

\* C6 amended: a save to a free target creates the missing parent
\* directories and writes the file; it returns normally exactly when the
\* load path resolved after the write is the written path, and fails with
\* InconsistentVersionError otherwise.
C6_DirectoryCreation ==
  (IsCall("save") /\ FreeTarget)
    => LET sp == absolute(last.save_path) IN
       /\ UpTo(parent(sp)) \subseteq dirs
       /\ sp \in DOMAIN files /\ files[sp] = last.data
       /\ last.kind = IF Target(LastDS) = sp THEN "ok"
                      ELSE "InconsistentVersionError"

\* A successful versioned save under three directories that did not exist.
C6_Witness ==
  /\ IsCall("save")
  /\ FreeTarget
  /\ last.kind = "ok"
  /\ LastDS.version.versioned
  /\ Cardinality(UpTo(parent(absolute(last.save_path))) \ last.pre.dirs) = 3
  /\ absolute(last.save_path) \in DOMAIN files

\* C7: describe() returns the configured filepath, load options and
\* version, touches no path and leaves the filesystem as it was; two
\* describe() calls in a row on a data set return the same mapping.
C7_Describe ==
  IsCall("describe")
    => /\ last.kind = "ok"
       /\ last.value = Configuration(LastDS)
       /\ last.io = {}
       /\ files = last.pre.files /\ dirs = last.pre.dirs
       /\ (prev.op = "describe" /\ prev.ds = last.ds) => last.value = prev.value

\* Two describe() calls in a row on a versioned data set with files on disk.
C7_Witness ==
  /\ IsCall("describe")
  /\ prev.op = "describe" /\ prev.ds = last.ds
  /\ LastDS.version.versioned
  /\ files # <<>>

\* The files of versions under the data set's directory, in filesystem f.
VersionFiles(f) == {q \in DOMAIN f : Len(q) = Len(AbsPath) + 2}

\* C8: a save on a versioned data set leaves every file other than the one
\* it writes in place with its content, adds no directory other than those
\* above its file, and, with an unset save identifier, writes under a new
\* identifier greater than the generated ones already on disk.
C8_OtherVersionsKept ==
  (IsCall("save") /\ LastDS.version.versioned)
    => LET sp == absolute(last.save_path) IN
       /\ \A q \in DOMAIN last.pre.files \ {sp} :
            q \in DOMAIN files /\ files[q] = last.pre.files[q]
       /\ DOMAIN files \subseteq DOMAIN last.pre.files \cup {sp}
       /\ last.pre.dirs \subseteq dirs
       /\ dirs \ last.pre.dirs \subseteq UpTo(parent(sp))
       /\ LastDS.version.save = None
            => /\ sp \notin DOMAIN last.pre.files
               /\ \A q \in VersionFiles(last.pre.files) :
                    VersionOf(q) \notin {V1, V3}
                      => LexLess(VersionOf(q), VersionOf(sp))

\* A generated version written next to an older generated one and a pinned
\* one, by a save that succeeded.
C8_Witness ==
  /\ IsCall("save")
  /\ last.ds = "latest"
  /\ last.kind = "ok"
  /\ Cardinality(VersionFiles(last.pre.files)) = 2
  /\ Cardinality(VersionFiles(files)) = 3
  /\ \E q \in VersionFiles(last.pre.files) : VersionOf(q) = V1

\* C9: a process whose save was overtaken (another process wrote a newer
\* version after this one resolved its save path and before it resolved its
\* load path) has written its file all the same, the newer file is there
\* too, and its save fails with InconsistentVersionError.
C9_ConcurrentSaves ==
  \A p \in Procs :
    (proc[p].pc = "done" /\ proc[p].overtaken # None)
      => /\ proc[p].kind = "InconsistentVersionError"
         /\ absolute(proc[p].save_path) \in DOMAIN files
         /\ proc[p].overtaken \in DOMAIN files
         /\ proc[p].overtaken # absolute(proc[p].save_path)

\* A was overtaken by B: B resolved later, wrote first, and both saves are
\* over, B's without an error.
C9_Witness ==
  /\ proc["A"].pc = "done" /\ proc["A"].overtaken # None
  /\ proc["A"].kind = "InconsistentVersionError"
  /\ proc["B"].pc = "done" /\ proc["B"].kind = "ok"
  /\ proc["A"].overtaken = absolute(proc["B"].save_path)
  /\ Cardinality(DOMAIN files) = 2

\* C10: a save that fails with InconsistentVersionError has written its
\* file, which is on disk with the data of the call, along with everything
\* that was there before; nothing else was written in the call, and no
\* later call removes a file.
C10_NoRollback ==
  /\ [](IsCall("save") /\ last.kind = "InconsistentVersionError"
          => LET sp == absolute(last.save_path) IN
             /\ sp \in DOMAIN files /\ files[sp] = last.data
             /\ DOMAIN files = DOMAIN last.pre.files \cup {sp}
             /\ \A q \in DOMAIN last.pre.files \ {sp} :
                  files[q] = last.pre.files[q])
  /\ [][DOMAIN files \subseteq DOMAIN files']_vars

\* A failed save with an unset save identifier: its new file is on disk
\* behind a greater version.
C10_Witness ==
  /\ IsCall("save")
  /\ last.ds = "latest"
  /\ last.kind = "InconsistentVersionError"
  /\ absolute(last.save_path) \notin DOMAIN last.pre.files
  /\ absolute(last.save_path) \in DOMAIN files
  /\ LexLess(VersionOf(last.save_path), VersionOf(last.load_path))

====
